---- MODULE Spec2Model ----
(***************************************************************************)
(* Model of src/src/StructureConstants/main.cpp: the LLL lattice reduction *)
(* (lines 40-133), the output of the reduced basis and mapping (lines      *)
(* 135-145) and the 27-image periodic distance search (lines 151-229).     *)
(*                                                                         *)
(* Numbers.  The program computes in IEEE doubles.  The model takes        *)
(* integer lattice entries, so the basis a and the mapping stay integers   *)
(* (every update subtracts an int multiple of a column or swaps columns),  *)
(* and it carries the Gram-Schmidt quantities b, u, m as exact rationals   *)
(* <<n, d>> in lowest terms, d > 0.  A zero denominator encodes what IEEE  *)
(* division by zero produces: <<0, 0>> is NaN, <<1, 0>> and <<-1, 0>> are  *)
(* the infinities.  Rounding error of doubles is not modelled.             *)
(*                                                                         *)
(* Matrices are functions M[r][c] of row r and column c, both in 0..2 as   *)
(* in the code; column j of M is [r |-> M[r][j]].                          *)
(***************************************************************************)
EXTENDS Integers, Sequences, FiniteSets, TLC

\* Lattice entries: diagonal in 0..MaxEntry, below-diagonal in -MaxEntry..MaxEntry.
MaxEntry == 2
\* Fractional coordinates are n / FDen with n in 0..MaxFNum.
MaxFNum == 2
\* Whole-repeat shifts tried per component: -MaxShift..MaxShift.
MaxShift == 2
\* Loop iterations allowed to a re-run of the reducer on its own output.
RerunFuel == 60

Idx == 0..2

(***************************************************************************)
(* Integer helpers                                                         *)
(*                                                                         *)
(* TLC evaluates the arguments of an operator by name, once per use.  The  *)
(* arithmetic below binds each argument to its value first, as the         *)
(* variable of a one-element set, so that nested expressions cost one      *)
(* evaluation per operation.                                               *)
(***************************************************************************)
\* the element of a one-element set
Val(S) == CHOOSE v \in S : TRUE

Abs(x) == Val({IF xx < 0 THEN -xx ELSE xx : xx \in {x}})

Sign(x) == Val({IF xx > 0 THEN 1 ELSE IF xx < 0 THEN -1 ELSE 0 : xx \in {x}})

\* gcd of x >= 0 and y >= 0
RECURSIVE Gcd(_, _)
Gcd(x, y) == IF y = 0 THEN x ELSE Val({Gcd(yy, rr) : yy \in {y}, rr \in {x % y}})

\* gcd of |x| and |y|, 1 when both are 0
Gcd1(x, y) ==
    Val({IF g = 0 THEN 1 ELSE g : g \in {Gcd(Abs(x), Abs(y))}})

(***************************************************************************)
(* double arithmetic, exact: rationals with NaN and the infinities         *)
(***************************************************************************)
\* n / d in lowest terms with a positive denominator
Norm(n, d) ==
    Val({IF dd = 0 THEN <<Sign(nn), 0>>
         ELSE Val({<<(sg * nn) \div g, (sg * dd) \div g>> :
                      g \in {Gcd1(nn, dd)}, sg \in {Sign(dd)}}) :
         nn \in {n}, dd \in {d}})

RInt(n) == <<n, 1>>

Zero == <<0, 1>>

One == <<1, 1>>

NaN == <<0, 0>>

IsNaN(x) == x = NaN

RNeg(x) == Val({<<-xx[1], xx[2]>> : xx \in {x}})

RAbs(x) == Val({<<Abs(xx[1]), xx[2]>> : xx \in {x}})

RMul(x, y) ==
    Val({Val({Norm((xx[1] \div g1) * (yy[1] \div g2), (xx[2] \div g2) * (yy[2] \div g1)) :
                 g1 \in {Gcd1(xx[1], yy[2])}, g2 \in {Gcd1(yy[1], xx[2])}}) :
         xx \in {x}, yy \in {y}})

RAdd(x, y) ==
    Val({IF xx[2] = 0 /\ yy[2] = 0 THEN (IF xx = yy THEN xx ELSE NaN)
         ELSE Val({Norm(xx[1] * (yy[2] \div g) + yy[1] * (xx[2] \div g),
                        (xx[2] \div g) * yy[2]) :
                      g \in {Gcd1(xx[2], yy[2])}}) :
         xx \in {x}, yy \in {y}})

RSub(x, y) == RAdd(x, RNeg(y))

\* x / y; y = 0 gives NaN for x = 0 and an infinity otherwise
RDiv(x, y) == RMul(x, Val({Norm(yy[2], yy[1]) : yy \in {y}}))

\* the value an infinity or a finite number takes in a comparison with an infinity
Ext(x) == IF x[2] = 0 THEN x[1] ELSE 0

\* x >= y; false when either is NaN
RGe(x, y) ==
    \E xx \in {x}, yy \in {y} :
        /\ ~IsNaN(xx)
        /\ ~IsNaN(yy)
        /\ IF xx[2] = 0 \/ yy[2] = 0 THEN Ext(xx) >= Ext(yy)
           ELSE \E g \in {Gcd1(xx[2], yy[2])} :
                    xx[1] * (yy[2] \div g) >= yy[1] * (xx[2] \div g)

\* x > y; false when either is NaN
RGt(x, y) ==
    \E xx \in {x}, yy \in {y} :
        /\ ~IsNaN(xx)
        /\ ~IsNaN(yy)
        /\ IF xx[2] = 0 \/ yy[2] = 0 THEN Ext(xx) > Ext(yy)
           ELSE \E g \in {Gcd1(xx[2], yy[2])} :
                    xx[1] * (yy[2] \div g) > yy[1] * (xx[2] \div g)

\* std::rint in the default rounding mode: nearest integer, ties to even
Rint(x) ==
    Val({Val({IF 2 * (xx[1] - f * xx[2]) < xx[2] THEN f
              ELSE IF 2 * (xx[1] - f * xx[2]) > xx[2] THEN f + 1
              ELSE IF f % 2 = 0 THEN f ELSE f + 1 :
                 f \in {xx[1] \div xx[2]}}) :
         xx \in {x}})

(***************************************************************************)
(* Vectors and matrices                                                    *)
(***************************************************************************)
\* the vector (F(0), F(1), F(2)), as an explicit function on 0..2
Vec3(F(_)) == (0 :> F(0)) @@ (1 :> F(1)) @@ (2 :> F(2))

\* the matrix with entry F(r, c) in row r, column c
Mat3(F(_, _)) == Vec3(LAMBDA r : Vec3(LAMBDA c : F(r, c)))

Col(M, j) == Vec3(LAMBDA r : M[r][j])

SetCol(M, j, v) == Vec3(LAMBDA r : [M[r] EXCEPT ![j] = v[r]])

Transpose(M) == Mat3(LAMBDA r, c : M[c][r])

Identity == Mat3(LAMBDA r, c : IF r = c THEN 1 ELSE 0)

MatMul(A, B) ==
    Mat3(LAMBDA r, c : A[r][0] * B[0][c] + A[r][1] * B[1][c] + A[r][2] * B[2][c])

\* row vector times matrix
VecMat(v, M) == Vec3(LAMBDA c : v[0] * M[0][c] + v[1] * M[1][c] + v[2] * M[2][c])

Det(M) ==
      M[0][0] * (M[1][1] * M[2][2] - M[1][2] * M[2][1])
    - M[0][1] * (M[1][0] * M[2][2] - M[1][2] * M[2][0])
    + M[0][2] * (M[1][0] * M[2][1] - M[1][1] * M[2][0])

ToR(v) == Vec3(LAMBDA r : RInt(v[r]))

DotR(x, y) ==
    RAdd(RAdd(RMul(x[0], y[0]), RMul(x[1], y[1])), RMul(x[2], y[2]))

ZeroMatR == Mat3(LAMBDA r, c : Zero)

ZeroVecR == Vec3(LAMBDA r : Zero)

ZeroMat == Mat3(LAMBDA r, c : 0)

ZeroVec == Vec3(LAMBDA r : 0)

(***************************************************************************)
(* Gram-Schmidt                                                            *)
(*                                                                         *)
(* The same three statements compute a row of the Gram-Schmidt state at    *)
(* initialisation (lines 50-54) and after a swap (lines 116-121).  A is    *)
(* the basis, B the matrix b, Mv the vector m, r the row (i, or s - 1).    *)
(* For r = 0 the index range seq(0, r - 1) is empty.                       *)
(***************************************************************************)
\* lines 116-117: u(r, j) = (a(:, r) . b(:, j)) / m(j), for j < r
GSCoeff(A, B, Mv, r, j) ==
    RDiv(RAdd(RAdd(RMul(RInt(A[0][r]), B[0][j]), RMul(RInt(A[1][r]), B[1][j])),
              RMul(RInt(A[2][r]), B[2][j])),
         Mv[j])

\* lines 119-120: b(c, r) = a(c, r) - sum over j < r of b(c, j) * u(r, j)
GSEntry(A, B, Mv, r, c) ==
    RSub(RInt(A[c][r]),
         IF r = 0 THEN Zero
         ELSE IF r = 1 THEN RMul(B[c][0], GSCoeff(A, B, Mv, r, 0))
         ELSE RAdd(RMul(B[c][0], GSCoeff(A, B, Mv, r, 0)),
                   RMul(B[c][1], GSCoeff(A, B, Mv, r, 1))))

\* u after lines 116-117
GSU(A, B, U, Mv, r) ==
    [U EXCEPT ![r] = Vec3(LAMBDA j : IF j < r THEN GSCoeff(A, B, Mv, r, j) ELSE U[r][j])]

\* b after lines 119-120
GSB(A, B, Mv, r) ==
    Mat3(LAMBDA rr, cc : IF cc = r THEN GSEntry(A, B, Mv, r, rr) ELSE B[rr][cc])

\* m after line 121
GSM(A, B, Mv, r) ==
    [Mv EXCEPT ![r] =
        RAdd(RAdd(RMul(GSEntry(A, B, Mv, r, 0), GSEntry(A, B, Mv, r, 0)),
                  RMul(GSEntry(A, B, Mv, r, 1), GSEntry(A, B, Mv, r, 1))),
             RMul(GSEntry(A, B, Mv, r, 2), GSEntry(A, B, Mv, r, 2)))]

\* row r of the Gram-Schmidt state g = [b, u, m] recomputed from basis A
GSRow(A, g, r) ==
    [b |-> GSB(A, g.b, g.m, r), u |-> GSU(A, g.b, g.u, g.m, r), m |-> GSM(A, g.b, g.m, r)]

\* b, u, m after lines 42-55
GramSchmidtInit(A) ==
    LET g0 == GSRow(A, [b |-> ZeroMatR, u |-> ZeroMatR, m |-> ZeroVecR], 0)
        g1 == GSRow(A, g0, 1)
    IN  GSRow(A, g1, 2)

(***************************************************************************)
(* State                                                                   *)
(***************************************************************************)
VARIABLES
    lattice,      \* the input lattice, one lattice vector per row (line 21)
    a,            \* current basis, lattice vectors as columns (line 25)
    b,            \* Gram-Schmidt vectors, as columns (line 26)
    u,            \* Gram-Schmidt coefficients u(i, j), j < i (line 27)
    m,            \* squared norms of the columns of b (line 28)
    mapping,      \* accumulated column operations (line 30)
    k,            \* progress pointer of the while loop (line 13)
    i,            \* loop variable of the size reduction (line 67)
    s,            \* loop variable of the recomputation after a swap (line 115)
    pc,           \* position in main
    lll,          \* reduced basis, one vector per row (line 17)
    lll_mapping,  \* transposed mapping (line 18)
    lll_inverse,  \* its inverse (line 19)
    fcoords1,     \* first fractional point, times FDen (line 151)
    fcoords2,     \* second fractional point, times FDen (line 152)
    pre_image,    \* cart2 - cart1, times FDen (line 161)
    best,         \* smallest squared length so far, times FDen^2 (line 214)
    bestk,        \* index of the offset that gave it (line 215)
    img,          \* loop variable of the image search (line 217)
    dist_vec      \* returned displacement, times FDen (line 228)

outvars == <<lll, lll_mapping, lll_inverse>>

distvars == <<fcoords1, fcoords2, pre_image, best, bestk, img, dist_vec>>

vars == <<lattice, a, b, u, m, mapping, k, i, s, pc, lll, lll_mapping, lll_inverse,
          fcoords1, fcoords2, pre_image, best, bestk, img, dist_vec>>

(***************************************************************************)
(* The statements of the reduction loop                                    *)
(***************************************************************************)
delta == <<3, 4>>

Half == <<1, 2>>

\* line 72
NeedsReduction(mu) == RGt(RAbs(mu), Half)

\* line 75: a(:, k-1) -= q * a(:, i-1)
BasisReduce(A, kk, ii, q) ==
    Mat3(LAMBDA r, c : IF c = kk - 1 THEN A[r][kk - 1] - q * A[r][ii - 1] ELSE A[r][c])

\* line 76 with the multiple of column i added instead of subtracted
MappingReduceAdded(M, kk, ii, q) ==
    Mat3(LAMBDA r, c : IF c = kk - 1 THEN M[r][kk - 1] + q * M[r][ii - 1] ELSE M[r][c])

\* line 76: mapping(:, k-1) -= q * mapping(:, i-1)
MappingReduce(M, kk, ii, q) ==
    Mat3(LAMBDA r, c : IF c = kk - 1 THEN M[r][kk - 1] - q * M[r][ii - 1] ELSE M[r][c])

\* lines 78-88: u(k-1, 0..i-1) -= q * uu(0..i-1), uu = (u(i-1, 0..i-2), 1, 0, ...)
CoeffReduce(U, kk, ii, q) ==
    LET uu(j) == IF j = ii - 1 THEN One
                 ELSE IF ii >= 2 /\ j <= ii - 2 THEN U[ii - 1][j]
                 ELSE Zero
    IN  [U EXCEPT ![kk - 1] =
            Vec3(LAMBDA j :
                IF j <= ii - 1 THEN RSub(U[kk - 1][j], RMul(RInt(q), uu(j)))
                ELSE U[kk - 1][j])]

\* squared norm of column j of B
SquaredNorm(B, j) ==
    RAdd(RAdd(RMul(B[0][j], B[0][j]), RMul(B[1][j], B[1][j])), RMul(B[2][j], B[2][j]))

\* line 94
Norm1(B, kk) == SquaredNorm(B, kk - 1)

\* line 95
Norm2(B, U, kk) ==
    RMul(RSub(delta, RMul(RAbs(U[kk - 1][kk - 2]), RAbs(U[kk - 1][kk - 2]))),
         SquaredNorm(B, kk - 2))

\* line 97 with the comparison turned round
LovaszHoldsInverted(B, U, kk) == RGt(Norm2(B, U, kk), Norm1(B, kk))

\* line 97
LovaszHolds(B, U, kk) == RGe(Norm1(B, kk), Norm2(B, U, kk))

\* line 105
SwapBasis(A, kk) ==
    Mat3(LAMBDA r, c : IF c = kk - 1 THEN A[r][kk - 2]
                       ELSE IF c = kk - 2 THEN A[r][kk - 1] ELSE A[r][c])

\* line 106
SwapMapping(M, kk) ==
    Mat3(LAMBDA r, c : IF c = kk - 1 THEN M[r][kk - 2]
                       ELSE IF c = kk - 2 THEN M[r][kk - 1] ELSE M[r][c])

\* lines 125-127 without the decrement
RetreatNever(kk) == kk

\* lines 125-127
Retreat(kk) == IF kk > 2 THEN kk - 1 ELSE kk

\* line 145 with the cofactor matrix not transposed
InverseUntransposed(M) ==
    LET cof(r, c) == M[(r + 1) % 3][(c + 1) % 3] * M[(r + 2) % 3][(c + 2) % 3]
                   - M[(r + 1) % 3][(c + 2) % 3] * M[(r + 2) % 3][(c + 1) % 3]
    IN  Mat3(LAMBDA r, c : cof(r, c) \div Det(M))

\* 3x3 inverse by cofactors, as Eigen computes it; exact for the integer
\* matrices of determinant +1 or -1 it is applied to
Inverse(M) ==
    LET cof(r, c) == M[(r + 1) % 3][(c + 1) % 3] * M[(r + 2) % 3][(c + 2) % 3]
                   - M[(r + 1) % 3][(c + 2) % 3] * M[(r + 2) % 3][(c + 1) % 3]
    IN  Mat3(LAMBDA r, c : cof(c, r) \div Det(M))

(***************************************************************************)
(* The reduction loop as a function of the reducer's state                 *)
(*   st = [a, b, u, m, mapping, k, i, s, pc]                               *)
(***************************************************************************)
\* the state at line 61, first evaluation of the loop condition
InitState(lat) ==
    LET A == Transpose(lat)
        g == GramSchmidtInit(A)
    IN  [a |-> A, b |-> g.b, u |-> g.u, m |-> g.m, mapping |-> Identity,
         k |-> 2, i |-> 1, s |-> 0, pc |-> "size"]

\* while (k <= 3): enter the body at the size reduction, or leave the loop
LoopEntry(st, kNew) ==
    IF kNew <= 3
    THEN [st EXCEPT !.k = kNew, !.i = kNew - 1, !.s = 0, !.pc = "size"]
    ELSE [st EXCEPT !.k = kNew, !.i = 0, !.s = 0, !.pc = "reduced"]

\* lines 69-90, one pass of the for loop of line 67
SizeReduceOp(st) ==
    LET mu   == st.u[st.k - 1][st.i - 1]
        next == IF st.i - 1 > 0 THEN "size" ELSE "lovasz"
    IN  IF NeedsReduction(mu)
        THEN LET q == Rint(mu)
             IN  [st EXCEPT !.a = BasisReduce(st.a, st.k, st.i, q),
                            !.mapping = MappingReduce(st.mapping, st.k, st.i, q),
                            !.u = CoeffReduce(st.u, st.k, st.i, q),
                            !.i = st.i - 1,
                            !.pc = next]
        ELSE [st EXCEPT !.i = st.i - 1, !.pc = next]

\* line 98
AdvanceOp(st) == LoopEntry(st, st.k + 1)

\* lines 105-106 and the start of the for loop of line 115
SwapOp(st) ==
    [st EXCEPT !.a = SwapBasis(st.a, st.k),
               !.mapping = SwapMapping(st.mapping, st.k),
               !.s = st.k - 1,
               !.pc = "gs"]

\* lines 116-121 for the current s, then s++; after the last pass lines 125-127
GramSchmidtOp(st) ==
    LET g  == GSRow(st.a, [b |-> st.b, u |-> st.u, m |-> st.m], st.s - 1)
        t  == [st EXCEPT !.b = g.b, !.u = g.u, !.m = g.m]
    IN  IF st.s + 1 < st.k + 1
        THEN [t EXCEPT !.s = st.s + 1]
        ELSE LoopEntry(t, Retreat(st.k))

\* the next step of the loop from state st
LLLStep(st) ==
    IF st.pc = "size" THEN SizeReduceOp(st)
    ELSE IF st.pc = "gs" THEN GramSchmidtOp(st)
    ELSE IF LovaszHolds(st.b, st.u, st.k) THEN AdvanceOp(st)
    ELSE SwapOp(st)

\* the loop run from st until it is left, or for at most fuel steps
RECURSIVE LLLRun(_, _)
LLLRun(st, fuel) ==
    IF st.pc = "reduced" \/ fuel = 0 THEN st ELSE LLLRun(LLLStep(st), fuel - 1)

(***************************************************************************)
(* Actions of the reducer                                                  *)
(***************************************************************************)
\* the lattices the reducer is run on: rows (p,0,0), (x,q,0), (y,z,r) with
\* p, q, r, x, z in 0..MaxEntry and y in -MaxEntry..MaxEntry
LatticeInputs ==
    { Mat3(LAMBDA r, c : IF c > r THEN 0 ELSE IF c = r THEN dg[r]
                         ELSE IF r = 1 THEN xz[0] ELSE IF c = 0 THEN y ELSE xz[1]) :
        dg \in [Idx -> 0..MaxEntry], xz \in [0..1 -> 0..MaxEntry],
        y \in (-MaxEntry)..MaxEntry }

InitWith(lat) ==
    /\ lattice = lat
    /\ \E st \in {InitState(lat)} :
          /\ a = st.a
          /\ b = st.b
          /\ u = st.u
          /\ m = st.m
          /\ mapping = st.mapping
          /\ k = st.k
          /\ i = st.i
          /\ s = st.s
          /\ pc = st.pc
    /\ lll = ZeroMat
    /\ lll_mapping = ZeroMat
    /\ lll_inverse = ZeroMat
    /\ fcoords1 = ZeroVec
    /\ fcoords2 = ZeroVec
    /\ pre_image = ZeroVec
    /\ best = 0
    /\ bestk = 0
    /\ img = 0
    /\ dist_vec = ZeroVec

InitLLL == \E lat \in LatticeInputs : InitWith(lat)

\* while (k <= 3), line 61, reached with pointer kNew
EnterLoop(kNew) ==
    /\ k' = kNew
    /\ s' = 0
    /\ IF kNew <= 3 THEN pc' = "size" /\ i' = kNew - 1
                    ELSE pc' = "reduced" /\ i' = 0

\* lines 69-90, one pass of the for loop of line 67
SizeReduce ==
    /\ pc = "size"
    /\ IF NeedsReduction(u[k - 1][i - 1])
       THEN /\ a' = BasisReduce(a, k, i, Rint(u[k - 1][i - 1]))
            /\ mapping' = MappingReduce(mapping, k, i, Rint(u[k - 1][i - 1]))
            /\ u' = CoeffReduce(u, k, i, Rint(u[k - 1][i - 1]))
       ELSE UNCHANGED <<a, mapping, u>>
    /\ i' = i - 1
    /\ pc' = IF i - 1 > 0 THEN "size" ELSE "lovasz"
    /\ UNCHANGED <<lattice, b, m, k, s, outvars, distvars>>

\* lines 94-98
LovaszAdvance ==
    /\ pc = "lovasz"
    /\ LovaszHolds(b, u, k)
    /\ EnterLoop(k + 1)
    /\ UNCHANGED <<lattice, a, b, u, m, mapping, outvars, distvars>>

\* lines 94-97, 105-106
LovaszSwap ==
    /\ pc = "lovasz"
    /\ ~LovaszHolds(b, u, k)
    /\ a' = SwapBasis(a, k)
    /\ mapping' = SwapMapping(mapping, k)
    /\ s' = k - 1
    /\ pc' = "gs"
    /\ UNCHANGED <<lattice, b, u, m, k, i, outvars, distvars>>

\* lines 116-121, one pass of the for loop of line 115; after the last one
\* lines 125-127 and the loop condition
GramSchmidtRow ==
    /\ pc = "gs"
    /\ u' = GSU(a, b, u, m, s - 1)
    /\ b' = GSB(a, b, m, s - 1)
    /\ m' = GSM(a, b, m, s - 1)
    /\ IF s + 1 < k + 1
       THEN s' = s + 1 /\ UNCHANGED <<k, i, pc>>
       ELSE EnterLoop(Retreat(k))
    /\ UNCHANGED <<lattice, a, mapping, outvars, distvars>>

\* lines 135-145
Output ==
    /\ pc = "reduced"
    /\ lll' = Transpose(a)
    /\ lll_mapping' = Transpose(mapping)
    /\ lll_inverse' = Inverse(Transpose(mapping))
    /\ pc' = "output"
    /\ UNCHANGED <<lattice, a, b, u, m, mapping, k, i, s, distvars>>

NextLLL == SizeReduce \/ LovaszAdvance \/ LovaszSwap \/ GramSchmidtRow \/ Output

SpecLLL == InitLLL /\ [][NextLLL]_vars

\* main runs one statement after another and never waits
FairLLL == SpecLLL /\ WF_vars(NextLLL)

(***************************************************************************)
(* Periodic distance (lines 151-229)                                       *)
(*                                                                         *)
(* Fractional coordinates are multiples of 1 / FDen; the model holds       *)
(* FDen times each coordinate and each Cartesian vector, and FDen^2 times  *)
(* each squared length.  dist = sqrt(best) is a strictly increasing        *)
(* function of best, so two distances are equal exactly when the two       *)
(* values of best are.                                                     *)
(***************************************************************************)
FDen == MaxFNum + 1

\* 1.0e20 of line 214: above every squared length the search can compute.
\* The model's integers end at 2^31 - 1.
BestInit == 2147483647

\* the values of the comma initialiser of lines 169-197, in source order
ImageValues ==
    << -1, -1, -1,
       -1, -1,  0,
       -1, -1,  1,
       -1,  0, -1,
       -1,  0,  0,
       -1,  0,  1,
       -1,  1, -1,
       -1,  1,  0,
       -1,  1,  1,

        0, -1, -1,
        0, -1,  0,
        0, -1,  1,
        0,  0, -1,
        0,  0,  0,
        0,  0,  1,
        0,  1, -1,
        0,  1,  0,
        0,  1,  1,

        1, -1, -1,
        1, -1,  0,
        1, -1,  1,
        1,  0, -1,
        1,  0,  0,
        1,  0,  1,
        1,  1, -1,
        1,  1,  0,
        1,  1,  1 >>

\* images(r, n): Eigen's comma initialiser fills the 3 x 27 matrix row by
\* row, so row r holds values 27 r + 1 .. 27 r + 27 of the list
images(r, n) == ImageValues[27 * r + n + 1]

\* column n of images: the n-th offset the search adds
ImageColumn(n) == Vec3(LAMBDA r : images(r, n))

\* lines 200-201: fcoords^T * lll_inverse
LllFcoords(f, Linv) == VecMat(f, Linv)

\* lines 203-204 build an expression and discard it: lll_fcoords are unchanged

\* lines 207-208: lll_fcoords^T * lll
Cart(f, L, Linv) == VecMat(LllFcoords(f, Linv), L)

\* line 212: cart2 - cart1
PreImage(f1, f2, L, Linv) ==
    Vec3(LAMBDA c : Cart(f2, L, Linv)[c] - Cart(f1, L, Linv)[c])

\* line 210: column n of cart_images = lll^T * images
CartImage(L, n) ==
    Vec3(LAMBDA c : L[0][c] * images(0, n) + L[1][c] * images(1, n) + L[2][c] * images(2, n))

\* line 218: dv = pre_image + cart_images(:, n)
ImageDv(pre, L, n) == Vec3(LAMBDA c : pre[c] + FDen * CartImage(L, n)[c])

\* line 219
SqNorm(v) == v[0] * v[0] + v[1] * v[1] + v[2] * v[2]

\* lines 221-224 with a later candidate of equal length replacing the best
ImageUpdateLast(acc, d, n) == IF d <= acc.best THEN [best |-> d, bestk |-> n] ELSE acc

\* lines 221-224 keeping the longer candidate
ImageUpdateLonger(acc, d, n) == IF d > acc.best THEN [best |-> d, bestk |-> n] ELSE acc

\* lines 221-224, on acc = [best, bestk]
ImageUpdate(acc, d, n) == IF d < acc.best THEN [best |-> d, bestk |-> n] ELSE acc

\* lines 217-226 from pass n on
RECURSIVE ImageSearch(_, _, _, _)
ImageSearch(pre, L, n, acc) ==
    IF n >= 27 THEN acc
    ELSE ImageSearch(pre, L, n + 1, ImageUpdate(acc, SqNorm(ImageDv(pre, L, n)), n))

\* lines 200-229 as a function of the reduced basis, the inverse mapping
\* and the two points
PeriodicDistance(L, Linv, f1, f2) ==
    LET pre == PreImage(f1, f2, L, Linv)
        r   == ImageSearch(pre, L, 0, [best |-> BestInit, bestk |-> 0])
    IN  [best |-> r.best, bestk |-> r.bestk, dist_vec |-> ImageDv(pre, L, r.bestk)]

\* the fractional points the distance is asked for
FracPoints == [Idx -> 0..MaxFNum]

\* the matrix with rows r0, r1, r2
Rows(r0, r1, r2) == Mat3(LAMBDA r, c : <<r0, r1, r2>>[r + 1][c + 1])

\* The lattices the whole program is run on: ten times the lattice of lines
\* 21-23, the lattice of lines 239-241, a skewed cell of the unit lattice
\* and a cell with two identical vectors.
ProgramLattices ==
    { Rows(<<20, 0, 0>>, <<1, 18, 0>>, <<1, 2, 9>>),
      Rows(<<1, 0, 0>>, <<0, 1, 0>>, <<0, 0, 1>>),
      Rows(<<1, 0, 0>>, <<-2, 1, 0>>, <<-2, -2, 1>>),
      Rows(<<1, 0, 0>>, <<1, 0, 0>>, <<0, 0, 1>>) }

Init == \E lat \in ProgramLattices : InitWith(lat)

\* lines 151-155, 200-215: the two points are the inputs
StartDistance ==
    /\ pc = "output"
    /\ \E f1 \in FracPoints, f2 \in FracPoints :
          /\ fcoords1' = f1
          /\ fcoords2' = f2
          /\ pre_image' = PreImage(f1, f2, lll, lll_inverse)
    /\ best' = BestInit
    /\ bestk' = 0
    /\ img' = 0
    /\ pc' = "images"
    /\ UNCHANGED <<lattice, a, b, u, m, mapping, k, i, s, outvars, dist_vec>>

\* lines 218-224, one pass of the for loop of line 217
ImageStep ==
    /\ pc = "images"
    /\ img < 27
    /\ \E r \in {ImageUpdate([best |-> best, bestk |-> bestk],
                             SqNorm(ImageDv(pre_image, lll, img)), img)} :
          /\ best' = r.best
          /\ bestk' = r.bestk
    /\ img' = img + 1
    /\ UNCHANGED <<lattice, a, b, u, m, mapping, k, i, s, outvars,
                   fcoords1, fcoords2, pre_image, dist_vec, pc>>

\* lines 228-229
DistanceDone ==
    /\ pc = "images"
    /\ img >= 27
    /\ dist_vec' = ImageDv(pre_image, lll, bestk)
    /\ pc' = "done"
    /\ UNCHANGED <<lattice, a, b, u, m, mapping, k, i, s, outvars,
                   fcoords1, fcoords2, pre_image, best, bestk, img>>

Next ==
    \/ SizeReduce
    \/ LovaszAdvance
    \/ LovaszSwap
    \/ GramSchmidtRow
    \/ Output
    \/ StartDistance
    \/ ImageStep
    \/ DistanceDone

Spec == Init /\ [][Next]_vars

(***************************************************************************)
(* Properties of the reducer                                               *)
(***************************************************************************)
\* the input lattice has a non-zero determinant
NonDegenerate == \E L \in {lattice} : Det(L) # 0

\* C1: in every state of the reduction (after initialisation, after each
\* size-reduction pass, after each swap, at termination) the current basis
\* is the original basis times the mapping, and the mapping has integer
\* entries and determinant +1 or -1.
C1_LatticeEquivalence ==
    /\ a = MatMul(Transpose(lattice), mapping)
    /\ \A r \in Idx, c \in Idx : mapping[r][c] \in Int
    /\ Det(mapping) \in {1, -1}

\* C1 witness: the loop has been left after size reductions and an odd
\* number of swaps changed the basis.
C1_Witness ==
    /\ pc = "reduced"
    /\ NonDegenerate
    /\ Det(mapping) = -1
    /\ \E r \in Idx, c \in Idx : Abs(mapping[r][c]) >= 2

\* The Gram-Schmidt state that belongs to basis A.
GramSchmidtOf(A) == GramSchmidtInit(A)

\* A is LLL-reduced for delta with respect to its own Gram-Schmidt state.
IsLLLReduced(A) ==
    LET g == GramSchmidtOf(A)
    IN  /\ \A r \in 1..2 : \A j \in 0..(r - 1) : RGe(Half, RAbs(g.u[r][j]))
        /\ \A r \in 1..2 :
              RGe(g.m[r], RMul(RSub(delta, RMul(g.u[r][r - 1], g.u[r][r - 1])), g.m[r - 1]))

\* C2: when the loop is left on a non-degenerate input, the output basis is
\* LLL-reduced for delta = 0.75 with respect to the Gram-Schmidt coefficients
\* and squared norms computed from the output basis itself.
C2_OutputReduced == (pc = "reduced" /\ NonDegenerate) => IsLLLReduced(a)

\* C5: on a degenerate input the reducer ends in a DegenerateLatticeError
\* outcome; it returns no basis and mapping and the distance computation is
\* not reached.
C5_DegenerateRaises ==
    /\ (~NonDegenerate) ~> (pc = "DegenerateLatticeError")
    /\ []((~NonDegenerate) => pc \notin {"output", "images", "done"})

\* C6: on every non-degenerate input the loop is left after finitely many
\* iterations, with k > 3, and the basis and mapping are output.
C6_Terminates == NonDegenerate ~> (pc = "output" /\ k > 3)

\* C6 witness: a non-degenerate input whose reduction took swaps and size
\* reductions has been output.
C6_Witness ==
    /\ pc = "output"
    /\ NonDegenerate
    /\ k > 3
    /\ Det(lll_mapping) = -1
    /\ lll # lattice

\* The reducer run on the lattice whose rows are the rows of L.
Rerun(L) == LLLRun(InitState(L), RerunFuel)

\* C8: the reducer run on its own output (non-degenerate input) performs no
\* size reduction and no swap: it returns the same basis and the identity
\* mapping.
C8_Idempotent ==
    (pc = "output" /\ NonDegenerate) =>
        LET r == Rerun(lll)
        IN  /\ r.pc = "reduced"
            /\ r.a = a
            /\ r.mapping = Identity

\* C10: at the start of every iteration of the loop and at termination, on a
\* non-degenerate input, b, u and m are the Gram-Schmidt state of the
\* current basis a: b[0] = a[0], b[i] = a[i] - sum_{j<i} u[i][j] b[j],
\* u[i][j] = (a[i].b[j]) / m[j] for j < i, m[i] = b[i].b[i].
C10_GramSchmidtConsistent ==
    (NonDegenerate /\ ((pc = "size" /\ i = k - 1) \/ pc = "reduced")) =>
        LET g == GramSchmidtOf(a)
        IN  /\ b = g.b
            /\ m = g.m
            /\ \A r \in 1..2 : \A j \in 0..(r - 1) : u[r][j] = g.u[r][j]

(***************************************************************************)
(* Properties of the periodic distance                                     *)
(***************************************************************************)
\* the 27 integer vectors with components in {-1, 0, 1}
Offsets27 == [Idx -> {-1, 0, 1}]

\* squared length of pre + n converted to Cartesian by basis L (times FDen^2)
ShiftedSqNorm(pre, L, n) ==
    SqNorm(Vec3(LAMBDA c : pre[c] + FDen * VecMat(n, L)[c]))

\* C3: the offsets searched are exactly the 27 distinct integer vectors with
\* components in {-1, 0, 1}, and the returned squared distance is the
\* minimum over these 27 offsets n of |cart2 - cart1 + n . lll|^2.
C3_SearchesAll27 ==
    (pc = "done") =>
        /\ {ImageColumn(n) : n \in 0..26} = Offsets27
        /\ \A n \in Offsets27 : best <= ShiftedSqNorm(pre_image, lll, n)
        /\ \E n \in Offsets27 : best = ShiftedSqNorm(pre_image, lll, n)

\* C4: the distance returned for (f1, f2) equals the one returned for
\* (f2, f1).
C4_Symmetric ==
    (pc = "done") =>
        best = PeriodicDistance(lll, lll_inverse, fcoords2, fcoords1).best

\* whole-repeat shifts of a fractional point
Shifts == [Idx -> (-MaxShift)..MaxShift]

Shifted(f, n) == Vec3(LAMBDA c : f[c] + FDen * n[c])

\* C7: adding any integer vector to f1 or to f2 leaves the returned distance
\* unchanged.
C7_WrapsInternally ==
    (pc = "done") =>
        \A n \in Shifts :
            /\ PeriodicDistance(lll, lll_inverse, Shifted(fcoords1, n), fcoords2).best = best
            /\ PeriodicDistance(lll, lll_inverse, fcoords1, Shifted(fcoords2, n)).best = best

\* C9: the distance of a point to itself is 0 and the returned displacement
\* is the zero vector.
C9_ZeroSelfDistance ==
    (pc = "done" /\ fcoords1 = fcoords2) => (best = 0 /\ dist_vec = ZeroVec)

\* C9 witness: the search has finished for a point, not the origin, and
\* itself, in a lattice whose reduction changed the basis.
C9_Witness ==
    /\ pc = "done"
    /\ fcoords1 = fcoords2
    /\ fcoords1 # ZeroVec
    /\ lll # lattice
    /\ best = 0
    /\ bestk = 5

(***************************************************************************)
(* Properties of the conversion between the two frames                     *)
(***************************************************************************)
\* C11: for every reducer output and every fractional point f, converting f
\* to the reduced frame with lll_inverse and then to Cartesian with lll
\* gives the Cartesian position f * lattice of the original basis (so the
\* difference cart2 - cart1 of two converted points is their difference in
\* the original lattice).
C11_ConversionPreservesPosition ==
    (pc = "output") =>
        \A f \in FracPoints : Cart(f, lll, lll_inverse) = VecMat(f, lattice)

\* C11 witness: the reducer has output a basis that differs from the input,
\* with a mapping that is no permutation (an entry of the inverse has
\* magnitude 2 or more).
C11_Witness ==
    /\ pc = "output"
    /\ lll # lattice
    /\ lll_inverse # lll_mapping
    /\ \E r \in Idx, c \in Idx : Abs(lll_inverse[r][c]) >= 2

(***************************************************************************)
(* Properties of the progress pointer                                      *)
(***************************************************************************)
\* a step that ends an iteration of the while loop: the advance of line 98,
\* or the last recomputation after a swap followed by lines 125-127
IterationEnds == pc \in {"lovasz", "gs"} /\ pc' \in {"size", "reduced"}

\* C12 as stated: every iteration changes k by exactly one, to k + 1 when
\* the Lovasz test holds and to k - 1 when a swap is performed, and k
\* changes nowhere else.
C12_StepsByOne ==
    [][IF IterationEnds
       THEN \/ pc = "lovasz" /\ k' = k + 1
            \/ pc = "gs" /\ k' = k - 1
       ELSE k' = k]_vars

\* C12 amended: an iteration sets k to k + 1 when the Lovasz test holds;
\* when a swap is performed it sets k to k - 1 if k > 2 and leaves k = 2
\* unchanged; k changes nowhere else and stays within 2..4.
C12_StepsByOneOrStays ==
    [][/\ IF IterationEnds
          THEN \/ pc = "lovasz" /\ k' = k + 1
               \/ pc = "gs" /\ k > 2 /\ k' = k - 1
               \/ pc = "gs" /\ k = 2 /\ k' = 2
          ELSE k' = k
       /\ k' \in 2..4]_vars

\* C12 witness: the first iteration swapped at k = 2 without a size
\* reduction and the next iteration starts with k still 2.
C12_Witness ==
    /\ pc = "size"
    /\ k = 2
    /\ i = 1
    /\ mapping = SwapMapping(Identity, 2)
    /\ NonDegenerate

(***************************************************************************)
(* Properties of the tie-breaking of the image search                      *)
(***************************************************************************)
\* squared length of the candidate of column n of the offsets table
CandidateSqNorm(n) == SqNorm(ImageDv(pre_image, lll, n))

\* C13: after any number of passes of the search, best is the minimal
\* squared length among the columns examined and bestk is the first column
\* (in the order of the offsets table) that attains it, so a later candidate
\* of equal length never replaces the current best; the returned
\* displacement vector is the one of that first column.
C13_FirstMinimumWins ==
    (pc \in {"images", "done"} /\ img > 0) =>
        /\ bestk \in 0..(img - 1)
        /\ best = CandidateSqNorm(bestk)
        /\ \A n \in 0..(img - 1) :
              /\ CandidateSqNorm(n) >= best
              /\ (CandidateSqNorm(n) = best) => (n >= bestk)
        /\ (pc = "done") => (dist_vec = ImageDv(pre_image, lll, bestk))

\* C13 witness: the search has finished and a later column with a different
\* offset gives the same minimal squared length as the column selected.
C13_Witness ==
    /\ pc = "done"
    /\ img = 27
    /\ \E n \in 0..26 :
          /\ n > bestk
          /\ ImageColumn(n) # ImageColumn(bestk)
          /\ CandidateSqNorm(n) = best

====
